---- MODULE Spec2Model ----
(***************************************************************************)
(* Model of the CT windowing pass of 02_load_deeplesion_balanced.ipynb     *)
(* (cell "Preprocessing DeepLesion CT Scans with DICOM Windowing").        *)
(*                                                                         *)
(* Representation.                                                         *)
(*  - A Python string is a tuple of one-character strings.                 *)
(*  - A pandas cell is Str(s) or NaN (the missing value, a float).         *)
(*  - A slice file "NNN.png" is named by its zero-padded index NNN, so     *)
(*    the lexicographic order of sorted(glob(...)) is the numeric order.   *)
(*  - An image is a sequence of pixels; ImreadNone is a file cv2.imread    *)
(*    cannot decode (it returns None).                                     *)
(*  - Window numerals are decimal integers.  For integer a, d with         *)
(*    0 <= a <= d < 65536 the double computation int((a/d)*255) equals     *)
(*    (255*a) \div d, so the transform is computed on integers.            *)
(***************************************************************************)
EXTENDS Integers, Naturals, Sequences, FiniteSets, TLC

VARIABLES dl_info, imwriteResult, nanCast,
          pc, idx, folder, clip_min, clip_max, images,
          out, dirs, log, writes,
          image, raw,
          prediction_file, class_list, yolo_detections, detections,
          dpc, error, nconv,
          sample_files, fields, ylist, dlist, bpc, berror,
          archives, zidx, zpc, on_disk, extracted, zlog,
          dataset, lesion_types, balanced_ids, balpc,
          db, images_per, bad_subset, midx, mpc

\* The state of the windowing pass.
winVars == <<dl_info, imwriteResult, nanCast, pc, idx, folder, clip_min, clip_max,
             images, out, dirs, log, writes, image, raw>>

\* The state of the detection converter.
detVars == <<prediction_file, class_list, yolo_detections, detections,
             dpc, error, nconv>>

\* The state of a call of add_yolo_detections on a batch of samples.
batchVars == <<sample_files, fields, ylist, dlist, bpc, berror>>

\* The state of the zip extraction pass.
zipVars == <<archives, zidx, zpc, on_disk, extracted, zlog>>

\* The state of the balanced-subset cell.
balVars == <<dataset, lesion_types, balanced_ids, balpc>>

\* The state of the ARCADE merge cell.
mergeVars == <<db, images_per, bad_subset, midx, mpc>>

\* The state of the other cells of the notebooks.
auxVars == <<batchVars, zipVars, balVars, mergeVars>>

vars == <<winVars, detVars, auxVars>>

\* The detection converter has not been called.
DetIdle ==
  /\ prediction_file = [exists |-> FALSE, lines |-> <<>>]
  /\ class_list = <<>>
  /\ yolo_detections = <<>>
  /\ detections = <<>>
  /\ dpc = "idle"
  /\ error = "none"
  /\ nconv = 0

\* add_yolo_detections has not been called.
BatchIdle ==
  /\ sample_files = <<>>
  /\ fields = <<>>
  /\ ylist = <<>>
  /\ dlist = <<>>
  /\ bpc = "idle"
  /\ berror = "none"

\* The zip extraction pass is not running.
ZipIdle ==
  /\ archives = <<>>
  /\ zidx = 1
  /\ zpc = "idle"
  /\ on_disk = {}
  /\ extracted = {}
  /\ zlog = <<>>

\* The balanced-subset cell is not running.
BalIdle ==
  /\ dataset = <<>>
  /\ lesion_types = <<>>
  /\ balanced_ids = <<>>
  /\ balpc = "idle"

\* The ARCADE merge cell is not running.
MergeIdle ==
  /\ db = <<>>
  /\ images_per = <<>>
  /\ bad_subset = 0
  /\ midx = 1
  /\ mpc = "idle"

\* No other cell is running.
AuxIdle == BatchIdle /\ ZipIdle /\ BalIdle /\ MergeIdle

(***************************************************************************)
(* Bounds                                                                  *)
(***************************************************************************)
MaxRows == 2

MaxWriteFaults == 1

HUSpan == 6

WinSpan == 3

(***************************************************************************)
(* Program constants                                                       *)
(***************************************************************************)
HUOffset == 32768

DefaultClipMin == -150

DefaultClipMax == 250

U8Max == 255

(***************************************************************************)
(* Strings and pandas cells                                                *)
(***************************************************************************)
Str(s) == [isstr |-> TRUE, s |-> s]

NaN == [isstr |-> FALSE, s |-> <<>>]

Digits == {"0", "1", "2", "3", "4", "5", "6", "7", "8", "9"}

DigitVal(c) ==
  CASE c = "0" -> 0 [] c = "1" -> 1 [] c = "2" -> 2 [] c = "3" -> 3
    [] c = "4" -> 4 [] c = "5" -> 5 [] c = "6" -> 6 [] c = "7" -> 7
    [] c = "8" -> 8 [] c = "9" -> 9

\* Index of the last occurrence of ch in s, 0 when there is none.
RECURSIVE LastIndexOf(_, _, _)
LastIndexOf(s, ch, i) ==
  IF i = 0 THEN 0
  ELSE IF s[i] = ch THEN i
  ELSE LastIndexOf(s, ch, i - 1)

\* Variant of RSplitHead that cuts at the first underscore.
RSplitHeadFirst(s) ==
  LET RECURSIVE First(_)
      First(i) == IF i > Len(s) THEN 0 ELSE IF s[i] = "_" THEN i ELSE First(i + 1)
      k == First(1)
  IN IF k = 0 THEN s ELSE SubSeq(s, 1, k - 1)

\* s.rsplit('_', 1)[0]: everything before the last underscore, or the
\* whole string when it has no underscore.
RSplitHead(s) ==
  LET k == LastIndexOf(s, "_", Len(s))
  IN IF k = 0 THEN s ELSE SubSeq(s, 1, k - 1)

\* s.split(','): the pieces between commas; the empty string gives one
\* empty piece.
RECURSIVE Split(_)
Split(s) ==
  LET RECURSIVE FirstComma(_)
      FirstComma(i) ==
        IF i > Len(s) THEN 0 ELSE IF s[i] = "," THEN i ELSE FirstComma(i + 1)
      k == FirstComma(1)
  IN IF k = 0 THEN <<s>>
     ELSE <<SubSeq(s, 1, k - 1)>> \o Split(SubSeq(s, k + 1, Len(s)))

\* v.strip(): leading and trailing blanks removed.
RECURSIVE Strip(_)
Strip(s) ==
  IF s = <<>> THEN s
  ELSE IF Head(s) = " " THEN Strip(Tail(s))
  ELSE IF s[Len(s)] = " " THEN Strip(SubSeq(s, 1, Len(s) - 1))
  ELSE s

RECURSIVE DigitsValue(_, _)
DigitsValue(s, acc) ==
  IF s = <<>> THEN acc ELSE DigitsValue(Tail(s), 10 * acc + DigitVal(Head(s)))

IsDigits(s) == s # <<>> /\ \A i \in 1..Len(s) : s[i] \in Digits

\* float(t) on the model's alphabet: an optional sign followed by digits
\* parses, anything else raises ValueError.
FloatOk(t) ==
  \/ IsDigits(t)
  \/ t # <<>> /\ Head(t) \in {"-", "+"} /\ IsDigits(Tail(t))

FloatVal(t) ==
  IF Head(t) = "-" THEN 0 - DigitsValue(Tail(t), 0)
  ELSE IF Head(t) = "+" THEN DigitsValue(Tail(t), 0)
  ELSE DigitsValue(t, 0)

(***************************************************************************)
(* Window parsing (lines 215-221)                                          *)
(***************************************************************************)
\* Variant of DICOMWindows in which a read past the end of the parsed list
\* wraps around instead of raising IndexError.
DICOMWindowsNoIndexCheck(cell) ==
  LET pieces == IF cell.isstr THEN Split(cell.s) ELSE <<>>
      ok == /\ cell.isstr
            /\ \A i \in 1..Len(pieces) : FloatOk(Strip(pieces[i]))
      vals == [i \in 1..Len(pieces) |-> FloatVal(Strip(pieces[i]))]
  IN [ok |-> ok, vals |-> IF ok THEN vals \o vals ELSE <<>>]

\* [float(v.strip()) for v in cell.split(',')] followed by the reads of
\* elements [0] and [1].  ok is FALSE exactly when the try block raises:
\* the cell is not a string (AttributeError), a piece is not a numeral
\* (ValueError) or there is no second element (IndexError).
DICOMWindows(cell) ==
  LET pieces == IF cell.isstr THEN Split(cell.s) ELSE <<>>
      ok == /\ cell.isstr
            /\ \A i \in 1..Len(pieces) : FloatOk(Strip(pieces[i]))
            /\ Len(pieces) >= 2
  IN [ok |-> ok,
      vals |-> IF ok THEN [i \in 1..Len(pieces) |-> FloatVal(Strip(pieces[i]))]
               ELSE <<>>]

\* Variant of ClipBounds whose except branch keeps the bounds in force.
ClipBoundsCarryOver(cell) ==
  LET w == DICOMWindows(cell)
  IN IF w.ok THEN <<w.vals[1], w.vals[2]>>
     ELSE <<clip_min, clip_max>>

\* The bounds the row's slices are processed with: elements [0] and [1] of
\* the parsed list, or the defaults of the except branch.
ClipBounds(cell) ==
  LET w == DICOMWindows(cell)
  IN IF w.ok THEN <<w.vals[1], w.vals[2]>>
     ELSE <<DefaultClipMin, DefaultClipMax>>

(***************************************************************************)
(* The transform (lines 198-202 and 227-230)                               *)
(***************************************************************************)
Min2(a, b) == IF a <= b THEN a ELSE b

Max2(a, b) == IF a >= b THEN a ELSE b

\* image.astype("int32") - 32768
ToHU(px) == px - HUOffset

\* Variant of NpClip without the upper bound.
NpClipNoUpper(x, lo, hi) == Max2(x, lo)

\* np.clip(x, lo, hi) = minimum(maximum(x, lo), hi)
NpClip(x, lo, hi) == Min2(Max2(x, lo), hi)

\* Variant of clip_and_normalize dividing by the number of levels.
clip_and_normalizeWideDen(x, cmin, cmax) ==
  [num |-> NpClip(x, cmin, cmax) - cmin, den |-> cmax - cmin + 1]

\* clip_and_normalize on one pixel; the float quotient is kept as the
\* fraction num/den (den = 0 is the 0.0/0.0 of a degenerate window).
clip_and_normalize(x, cmin, cmax) ==
  [num |-> NpClip(x, cmin, cmax) - cmin, den |-> cmax - cmin]

\* (image * 255).astype("uint8") on one pixel: truncation of a value in
\* [0, 255]; the cast of NaN is undefined, nan is what the build yields.
ScaleToU8(f, nan) ==
  IF f.den = 0 THEN nan
  ELSE IF f.den < 0 THEN (U8Max * (0 - f.num)) \div (0 - f.den)
  ELSE (U8Max * f.num) \div f.den

\* Lines 227-229 on a whole image.
Window8(img, cmin, cmax, nan) ==
  [i \in 1..Len(img) |->
     ScaleToU8(clip_and_normalize(ToHU(img[i]), cmin, cmax), nan)]

(***************************************************************************)
(* The raw image store                                                     *)
(***************************************************************************)
ImreadNone == <<-1>>

FolderAB == <<"a", "_", "b">>

FolderC == <<"c">>

\* {root_in}: folder a_b holds 001.png, 002.png (undecodable), 003.png and
\* a text file; folder c holds 001.png.
InputTree ==
  (FolderAB :> { [name |-> 1, ext |-> "png", data |-> <<HUOffset - 3, HUOffset + 1>>],
                 [name |-> 2, ext |-> "png", data |-> ImreadNone],
                 [name |-> 3, ext |-> "png", data |-> <<HUOffset + 3, HUOffset + 100>>],
                 [name |-> 4, ext |-> "txt", data |-> ImreadNone] })
  @@ (FolderC :> { [name |-> 1, ext |-> "png", data |-> <<HUOffset, HUOffset + 2>>] })

\* Directory listing; a missing directory lists nothing.
ListDir(d) == IF d \in DOMAIN InputTree THEN InputTree[d] ELSE {}

RECURSIVE SortedSeq(_)
SortedSeq(S) ==
  IF S = {} THEN <<>>
  ELSE LET m == CHOOSE x \in S : \A y \in S : x <= y
       IN <<m>> \o SortedSeq(S \ {m})

\* sorted(glob(os.path.join(subdir_in, "*.png")))
GlobPng(d) == SortedSeq({e.name : e \in {x \in ListDir(d) : x.ext = "png"}})

\* cv2.imread(im, cv2.IMREAD_UNCHANGED)
Imread(d, n) == (CHOOSE e \in ListDir(d) : e.name = n).data

\* Every path {root_out}/{folder}/{name} the pass can call cv2.imwrite on.
OutPaths ==
  UNION { {<<d, e.name>> : e \in {x \in InputTree[d] : x.ext = "png"}} :
          d \in DOMAIN InputTree }

(***************************************************************************)
(* The metadata table                                                      *)
(***************************************************************************)
Row(fn, w) == [File_name |-> fn, DICOM_windows |-> w]

FN_ab1 == Str(<<"a", "_", "b", "_", "1">>)

FN_ab2 == Str(<<"a", "_", "b", "_", "2">>)

FN_c1 == Str(<<"c", "_", "1">>)

FN_x == Str(<<"x">>)

W_m2_2 == Str(<<"-", "2", ",", " ", "2">>)

W_0_4 == Str(<<"0", ",", "4">>)

W_abc == Str(<<"a", "b", "c">>)

W_1 == Str(<<"1">>)

W_empty == Str(<<>>)

W_2_2 == Str(<<"2", ",", "2">>)

W_m2_2_5 == Str(<<"-", "2", ",", "2", ",", "5">>)

W_4_0 == Str(<<"4", ",", "0">>)

WindowCells == {W_m2_2, W_0_4, W_abc, W_1, W_empty, NaN, W_2_2, W_m2_2_5, W_4_0}

\* The rows a table is drawn from: every window cell on study a_b, a second
\* row of study a_b, a second study, a study without input directory and a
\* row without file identifier.
Rows ==
  {Row(FN_ab1, w) : w \in WindowCells}
    \cup {Row(FN_ab2, W_0_4), Row(FN_c1, W_m2_2), Row(FN_c1, W_abc),
          Row(FN_x, W_m2_2), Row(NaN, W_m2_2)}

Tables == UNION {[1..n -> Rows] : n \in 0..MaxRows}

\* What cv2.imwrite does on a path: "ok" writes the file and returns True,
\* "false" writes nothing and returns False (an I/O failure),
\* "raise" raises cv2.error.
ImwriteResults ==
  {f \in [OutPaths -> {"ok", "false", "raise"}] :
     Cardinality({p \in OutPaths : f[p] # "ok"}) <= MaxWriteFaults}

\* What the uint8 cast of NaN can yield.
NaNCastOutcomes == {0, 255}

(***************************************************************************)
(* The windowing loop (lines 207-237)                                      *)
(***************************************************************************)
EmptyFn == [p \in {} |-> 0]

\* Function f with f[k] set to v, k added to the domain when absent.
Put(f, k, v) == [x \in DOMAIN f \cup {k} |-> IF x = k THEN v ELSE f[x]]

Count(f, k) == IF k \in DOMAIN f THEN f[k] ELSE 0

WindowDiag(fn) == [kind |-> "Invalid DICOM window", file |-> <<fn>>]

ConvertDiag(d, n) == [kind |-> "Failed to convert", file |-> <<d, n>>]

\* The loop variable after the last slice of row i: the next row, or the
\* end of the table.
AfterRow(i) == IF i + 1 > Len(dl_info) THEN "done" ELSE "row"

\* Variant of MakeSubdirOut that calls os.makedirs(subdir_out) without the
\* existence test and without exist_ok: an existing directory raises
\* FileExistsError.
MakeSubdirOutNoExistOk(ds, f) == [dirs |-> ds \cup {f}, raised |-> f \in ds]

\* Lines 212-213: if not os.path.exists(subdir_out):
\* os.makedirs(subdir_out, exist_ok=True).  The directory exists afterwards
\* and an existing one raises nothing.
MakeSubdirOut(ds, f) == [dirs |-> ds \cup {f}, raised |-> FALSE]

\* One pass of the inner try block (lines 225-237) on slice n of folder d:
\* the effect on the output tree, the diagnostics and the write counts.
ConvertSlice(st, d, n, cmin, cmax) ==
  LET data == Imread(d, n)
      res == Window8(data, cmin, cmax, nanCast)
      wr == imwriteResult[<<d, n>>]
  IN IF data = ImreadNone
       THEN [out |-> st.out, log |-> Append(st.log, ConvertDiag(d, n)),
             writes |-> st.writes, image |-> ImreadNone, raw |-> ImreadNone]
     ELSE IF wr = "ok"
       THEN [out |-> Put(st.out, <<d, n>>, res), log |-> st.log,
             writes |-> Put(st.writes, <<d, n>>, Count(st.writes, <<d, n>>) + 1),
             image |-> res, raw |-> data]
     ELSE IF wr = "raise"
       THEN [out |-> st.out, log |-> Append(st.log, ConvertDiag(d, n)),
             writes |-> st.writes, image |-> res, raw |-> data]
     ELSE [out |-> st.out, log |-> st.log,
           writes |-> st.writes, image |-> res, raw |-> data]

Init ==
  /\ dl_info \in Tables
  /\ imwriteResult \in ImwriteResults
  /\ nanCast \in NaNCastOutcomes
  /\ pc = IF Len(dl_info) = 0 THEN "done" ELSE "row"
  /\ idx = 1
  /\ folder = <<>>
  /\ clip_min = DefaultClipMin
  /\ clip_max = DefaultClipMax
  /\ images = <<>>
  /\ out = EmptyFn
  /\ dirs = {}
  /\ log = <<>>
  /\ writes = EmptyFn
  /\ image = ImreadNone
  /\ raw = ImreadNone
  /\ DetIdle
  /\ AuxIdle

\* Line 208 on a row whose File_name is not a string: .rsplit raises
\* AttributeError outside every try block and the cell stops.
RowAbort ==
  /\ pc = "row"
  /\ ~dl_info[idx].File_name.isstr
  /\ pc' = "aborted"
  /\ UNCHANGED <<dl_info, imwriteResult, nanCast, idx, folder, clip_min,
                 clip_max, images, out, dirs, log, writes, image, raw>>
  /\ UNCHANGED detVars
  /\ UNCHANGED auxVars

\* Lines 208-224: folder, output directory, window bounds, slice list.
RowStep ==
  /\ pc = "row"
  /\ dl_info[idx].File_name.isstr
  /\ LET row == dl_info[idx]
         f == RSplitHead(row.File_name.s)
         mk == MakeSubdirOut(dirs, f)
         b == ClipBounds(row.DICOM_windows)
         ims == GlobPng(f)
     IN IF mk.raised
          THEN /\ pc' = "aborted"
               /\ folder' = f
               /\ UNCHANGED <<idx, dirs, clip_min, clip_max, log, images>>
          ELSE /\ folder' = f
               /\ dirs' = mk.dirs
               /\ clip_min' = b[1]
               /\ clip_max' = b[2]
               /\ log' = IF DICOMWindows(row.DICOM_windows).ok THEN log
                         ELSE Append(log, WindowDiag(row.File_name))
               /\ images' = ims
               /\ IF ims = <<>>
                    THEN idx' = idx + 1 /\ pc' = AfterRow(idx)
                    ELSE idx' = idx /\ pc' = "slices"
  /\ UNCHANGED <<dl_info, imwriteResult, nanCast, out, writes, image, raw>>
  /\ UNCHANGED detVars
  /\ UNCHANGED auxVars

\* Lines 225-237 on the next slice of the current row.
SliceStep ==
  /\ pc = "slices"
  /\ LET r == ConvertSlice([out |-> out, log |-> log, writes |-> writes],
                           folder, Head(images), clip_min, clip_max)
     IN /\ out' = r.out
        /\ log' = r.log
        /\ writes' = r.writes
        /\ image' = r.image
        /\ raw' = r.raw
  /\ images' = Tail(images)
  /\ IF Tail(images) = <<>>
       THEN idx' = idx + 1 /\ pc' = AfterRow(idx)
       ELSE idx' = idx /\ pc' = "slices"
  /\ UNCHANGED <<dl_info, imwriteResult, nanCast, folder, clip_min, clip_max, dirs>>
  /\ UNCHANGED detVars
  /\ UNCHANGED auxVars

Next == RowAbort \/ RowStep \/ SliceStep

Spec == Init /\ [][Next]_vars

(***************************************************************************)
(* The transform on its own: one image of two pixels under one window      *)
(***************************************************************************)
WinVals == (0 - WinSpan)..WinSpan

WinPairs == (WinVals \X WinVals) \cup {<<DefaultClipMin, DefaultClipMax>>}

\* 16-bit pixels: both ends of the range, the values around HU 0 and the
\* ends of the default window.
RawVals ==
  {0, 2 * HUOffset - 1} \cup {HUOffset + h : h \in (0 - HUSpan)..HUSpan}
    \cup {HUOffset + DefaultClipMin, HUOffset + DefaultClipMax}

InitNorm ==
  /\ dl_info = <<>>
  /\ imwriteResult = [p \in OutPaths |-> "ok"]
  /\ nanCast \in NaNCastOutcomes
  /\ pc = "read"
  /\ idx = 1
  /\ folder = <<>>
  /\ \E w \in WinPairs : clip_min = w[1] /\ clip_max = w[2]
  /\ images = <<>>
  /\ out = EmptyFn
  /\ dirs = {}
  /\ log = <<>>
  /\ writes = EmptyFn
  /\ image \in [1..2 -> RawVals]
  /\ raw = image
  /\ DetIdle
  /\ AuxIdle

\* Lines 227-229 applied to the image just read.
NormStep ==
  /\ pc = "read"
  /\ image' = Window8(image, clip_min, clip_max, nanCast)
  /\ pc' = "scaled"
  /\ UNCHANGED <<dl_info, imwriteResult, nanCast, idx, folder, clip_min,
                 clip_max, images, out, dirs, log, writes, raw>>
  /\ UNCHANGED detVars
  /\ UNCHANGED auxVars

NextNorm == NormStep

SpecNorm == InitNorm /\ [][NextNorm]_vars

(***************************************************************************)
(* Properties of the transform                                             *)
(***************************************************************************)
\* C1: under a window with clip_min < clip_max every output pixel lies in
\* 0..255, a pixel with the smaller raw value never gets the larger output,
\* and the output is 0 below clip_min and 255 above clip_max.
C1_RangeAndMonotone ==
  (pc = "scaled" /\ clip_min < clip_max) =>
    /\ \A i \in 1..Len(image) : image[i] \in 0..U8Max
    /\ \A i, j \in 1..Len(image) : raw[i] <= raw[j] => image[i] <= image[j]
    /\ \A i \in 1..Len(image) :
         /\ raw[i] - HUOffset < clip_min => image[i] = 0
         /\ raw[i] - HUOffset > clip_max => image[i] = U8Max

C1_Witness ==
  /\ pc = "scaled" /\ clip_min < clip_max
  /\ raw[1] < raw[2]
  /\ 0 < image[1] /\ image[1] < image[2] /\ image[2] < U8Max

\* C2: under a window with clip_min < clip_max a pixel whose HU value
\* (raw - 32768) is clip_min is written as 0 and one whose HU value is
\* clip_max is written as 255.
C2_Boundary ==
  (pc = "scaled" /\ clip_min < clip_max) =>
    \A i \in 1..Len(image) :
      /\ raw[i] - HUOffset = clip_min => image[i] = 0
      /\ raw[i] - HUOffset = clip_max => image[i] = U8Max

C2_Witness ==
  /\ pc = "scaled" /\ clip_min < clip_max
  /\ raw[1] - HUOffset = clip_min /\ image[1] = 0
  /\ raw[2] - HUOffset = clip_max /\ image[2] = U8Max

(***************************************************************************)
(* The whole pass as a function of the table, for comparing runs           *)
(***************************************************************************)
RECURSIVE RunSlices(_, _, _, _, _)
RunSlices(st, d, ims, cmin, cmax) ==
  IF ims = <<>> THEN st
  ELSE LET r == ConvertSlice(st, d, Head(ims), cmin, cmax)
       IN RunSlices([out |-> r.out, log |-> r.log, writes |-> r.writes,
                     aborted |-> st.aborted],
                    d, Tail(ims), cmin, cmax)

\* One iteration of the outer loop (lines 208-237).
RunRow(st, row) ==
  IF st.aborted THEN st
  ELSE IF ~row.File_name.isstr THEN [st EXCEPT !.aborted = TRUE]
  ELSE LET f == RSplitHead(row.File_name.s)
           b == ClipBounds(row.DICOM_windows)
           lg == IF DICOMWindows(row.DICOM_windows).ok THEN st.log
                 ELSE Append(st.log, WindowDiag(row.File_name))
       IN RunSlices([st EXCEPT !.log = lg], f, GlobPng(f), b[1], b[2])

RECURSIVE RunTable(_, _)
RunTable(st, t) ==
  IF t = <<>> THEN st ELSE RunTable(RunRow(st, Head(t)), Tail(t))

\* The result of the pass over table t started on an empty output root.
FinalState(t) ==
  RunTable([out |-> EmptyFn, log |-> <<>>, writes |-> EmptyFn, aborted |-> FALSE], t)

Perms(n) == {f \in [1..n -> 1..n] : \A i, j \in 1..n : f[i] = f[j] => i = j}

Permuted(t, f) == [i \in 1..Len(t) |-> t[f[i]]]

RunEnded == pc \in {"done", "aborted"}

\* The loop and the function agree on every finished run.
LoopIsFinalState ==
  RunEnded =>
    LET fs == FinalState(dl_info)
    IN out = fs.out /\ log = fs.log /\ writes = fs.writes
         /\ (fs.aborted <=> pc = "aborted")

(***************************************************************************)
(* Properties of the windowing loop                                        *)
(***************************************************************************)
\* The study directory each file identifier of the table names.
StudyOf(fn) ==
  IF fn \in {FN_ab1, FN_ab2} THEN FolderAB
  ELSE IF fn = FN_c1 THEN FolderC
  ELSE <<"x">>

LogSet == {log[i] : i \in 1..Len(log)}

DefaultImage(p) == Window8(Imread(p[1], p[2]), DefaultClipMin, DefaultClipMax, nanCast)

\* The slices written by the step taken.
WrittenNow == {p \in DOMAIN writes' : writes'[p] # Count(writes, p)}

\* Window cells that are missing, non-numeric, a single value or empty.
MalformedCells == {NaN, W_abc, W_1, W_empty}

\* C3: a row whose window field is missing, non-numeric, a single value or
\* empty gets the default bounds (-150, 250), every slice written for it is
\* the default-window image, and the pass goes on to the next slice or row.
C3_MalformedUsesDefault ==
  [][ /\ (pc = "row" /\ dl_info[idx].File_name.isstr
            /\ dl_info[idx].DICOM_windows \in MalformedCells)
         => /\ clip_min' = DefaultClipMin /\ clip_max' = DefaultClipMax
            /\ pc' \in {"slices", "row", "done"}
      /\ (pc = "slices" /\ dl_info[idx].DICOM_windows \in MalformedCells)
         => /\ \A p \in WrittenNow : out'[p] = DefaultImage(p)
            /\ pc' \in {"slices", "row", "done"} ]_vars

C3_Witness ==
  /\ pc = "done" /\ Len(dl_info) = 2
  /\ dl_info[1] = Row(FN_ab1, W_1) /\ dl_info[2] = Row(FN_c1, W_m2_2)
  /\ <<FolderAB, 1>> \in DOMAIN out
  /\ out[<<FolderAB, 1>>] = DefaultImage(<<FolderAB, 1>>)
  /\ <<FolderC, 1>> \in DOMAIN out

\* Window cells whose two parsed bounds are equal.
DegenerateCells == {W_2_2}

\* C4: a row whose parsed window has clip_max = clip_min is handled as a
\* malformed one: its slices are processed with the default bounds
\* (-150, 250), so no quotient with a zero divisor is formed.
C4_DegenerateUsesDefault ==
  (pc = "slices" /\ dl_info[idx].DICOM_windows \in DegenerateCells) =>
    (clip_min = DefaultClipMin /\ clip_max = DefaultClipMax)

\* Window cells that do not hold exactly two comma-separated numerals.
NotTwoValuesCells == {NaN, W_abc, W_1, W_empty, W_m2_2_5}

\* C5: a row whose window field does not hold exactly two numeric values
\* (too few, or three and more) is processed with the default bounds and a
\* diagnostic naming its file identifier has been printed.
C5_WrongCardinalityUsesDefault ==
  (pc = "slices" /\ dl_info[idx].DICOM_windows \in NotTwoValuesCells) =>
    /\ clip_min = DefaultClipMin /\ clip_max = DefaultClipMax
    /\ WindowDiag(dl_info[idx].File_name) \in LogSet

\* A slice whose read or write fails.
SliceFails(p) == Imread(p[1], p[2]) = ImreadNone \/ imwriteResult[p] # "ok"

\* C6: when reading or writing the slice at hand fails, a diagnostic with
\* its file name is printed; a slice that does not fail is written; in both
\* cases the pass goes on with the next slice of the study or the next row.
C6_SliceFailureLoggedAndSkipped ==
  [][ pc = "slices" =>
        LET p == <<folder, Head(images)>>
        IN /\ SliceFails(p) => log' = Append(log, ConvertDiag(p[1], p[2]))
           /\ ~SliceFails(p) => (p \in DOMAIN out' /\ log' = log)
           /\ images' = Tail(images)
           /\ pc' = IF images' # <<>> THEN "slices" ELSE AfterRow(idx) ]_vars

\* C7: a run ends only after the last row of the table has been processed.
C7_RunReachesLastRow ==
  RunEnded => (pc = "done" /\ idx = Len(dl_info) + 1)

\* C8: no output slice is written more than once during a run.
C8_WrittenAtMostOnce ==
  \A p \in DOMAIN writes : writes[p] <= 1

\* C9: the output tree a completed run ends with is the one the run over
\* every reordering of the table's rows ends with.
C9_OrderIndependent ==
  pc = "done" =>
    \A f \in Perms(Len(dl_info)) : FinalState(Permuted(dl_info, f)).out = out

\* The rows the run has gone through when it ends.
RowsReached == 1..(idx - 1)

\* The slices of the input tree and of the output tree.
InputPaths ==
  UNION { {<<d, e.name>> : e \in InputTree[d]} : d \in DOMAIN InputTree }

\* Slice p is a decodable .png of the input tree and imwrite works on it.
ProcessedWithoutError(p) ==
  /\ \E e \in ListDir(p[1]) : e.name = p[2] /\ e.ext = "png" /\ e.data # ImreadNone
  /\ imwriteResult[p] = "ok"

\* C10: when a run started on an empty output root ends, the output tree
\* holds {folder}/{name} exactly for the input slices {folder}/{name} whose
\* study is named by a row the run went through and that were read and
\* written without error.
C10_OutputMirrorsInput ==
  RunEnded =>
    \A p \in InputPaths \cup DOMAIN out :
      p \in DOMAIN out <=>
        /\ \E i \in RowsReached : StudyOf(dl_info[i].File_name) = p[1]
        /\ ProcessedWithoutError(p)

C10_Witness ==
  /\ pc = "done"
  /\ \E i \in 1..Len(dl_info) : dl_info[i].File_name = FN_ab1
  /\ <<FolderAB, 1>> \in DOMAIN out
  /\ <<FolderAB, 2>> \notin DOMAIN out
  /\ <<FolderAB, 3>> \notin DOMAIN out
  /\ <<FolderC, 1>> \notin DOMAIN out

(***************************************************************************)
(* Rounding of the scaled value                                            *)
(***************************************************************************)
\* round(255 * a / d) for 0 <= a <= d, d > 0: the nearest integer, a tie
\* going to the even neighbour.
RoundedScale(a, d) ==
  LET q == (U8Max * a) \div d
      r == (U8Max * a) % d
  IN IF 2 * r > d THEN q + 1
     ELSE IF 2 * r = d THEN q + (q % 2)
     ELSE q

\* C11: under a window with clip_min < clip_max every output pixel is
\* round(255 * (clip(raw - 32768, clip_min, clip_max) - clip_min)
\*       / (clip_max - clip_min)), the nearest integer and not the
\* truncated value.
C11_RoundedToNearest ==
  (pc = "scaled" /\ clip_min < clip_max) =>
    \A i \in 1..Len(image) :
      image[i] =
        RoundedScale(Min2(Max2(raw[i] - HUOffset, clip_min), clip_max) - clip_min,
                     clip_max - clip_min)

(***************************************************************************)
(* A second pass over the output of a first one                            *)
(***************************************************************************)
\* The output directories a pass over table t leaves behind.
RECURSIVE DirsCreated(_)
DirsCreated(t) ==
  IF t = <<>> \/ ~Head(t).File_name.isstr THEN {}
  ELSE {RSplitHead(Head(t).File_name.s)} \cup DirsCreated(Tail(t))

\* The cell is run again: the table, the input tree and the environment
\* are those of the first pass, whose directories and files are in place.
InitRerun ==
  /\ dl_info \in Tables
  /\ imwriteResult \in ImwriteResults
  /\ nanCast \in NaNCastOutcomes
  /\ pc = IF Len(dl_info) = 0 THEN "done" ELSE "row"
  /\ idx = 1
  /\ folder = <<>>
  /\ clip_min = DefaultClipMin
  /\ clip_max = DefaultClipMax
  /\ images = <<>>
  /\ out = FinalState(dl_info).out
  /\ dirs = DirsCreated(dl_info)
  /\ log = <<>>
  /\ writes = EmptyFn
  /\ image = ImreadNone
  /\ raw = ImreadNone
  /\ DetIdle
  /\ AuxIdle

SpecRerun == InitRerun /\ [][Next]_vars

\* C12: a second pass over the same inputs, started with the directories
\* and files of the first pass in place, ends as the first pass did (it
\* completes when the first completed; an existing output directory stops
\* nothing) and leaves the output tree and its directories as they were.
C12_RerunIdempotent ==
  RunEnded =>
    /\ out = FinalState(dl_info).out
    /\ dirs = DirsCreated(dl_info)
    /\ pc = "aborted" <=> FinalState(dl_info).aborted

C12_Witness ==
  /\ pc = "done"
  /\ Len(dl_info) = 2
  /\ folder \in dirs
  /\ <<FolderAB, 1>> \in DOMAIN writes
  /\ out[<<FolderAB, 1>>] = FinalState(dl_info).out[<<FolderAB, 1>>]

(***************************************************************************)
(* Diagnostics of a whole run                                              *)
(***************************************************************************)
\* Window cells the specification counts as malformed: a failed parse, a
\* wrong number of values, or two equal bounds.
MalformedWindowCells == NotTwoValuesCells \cup DegenerateCells

\* Number of diagnostics of kind k printed so far.
DiagCount(k) == Cardinality({i \in 1..Len(log) : log[i].kind = k})

\* The slices of study d the pass can read and write.
GoodSlices(d) ==
  {p \in InputPaths : p[1] = d /\ ProcessedWithoutError(p)}

\* The bounds row i is to be processed with: its own two values, or the
\* defaults when its cell is malformed.
ExpectedBounds(i) ==
  LET c == dl_info[i].DICOM_windows
  IN IF c \in MalformedWindowCells THEN <<DefaultClipMin, DefaultClipMax>>
     ELSE IF c = W_m2_2 THEN <<-2, 2>>
     ELSE IF c = W_0_4 THEN <<0, 4>>
     ELSE <<4, 0>>

\* C13: when a run completes, the number of fallback diagnostics is the number
\* of rows with a malformed window, and every study named in the table has
\* its slices in the output, written with the default bounds for a row
\* with a malformed window and with the row's own bounds otherwise.
C13_OneFallbackPerMalformedRow ==
  pc = "done" =>
    /\ DiagCount("Invalid DICOM window")
         = Cardinality({i \in 1..Len(dl_info) :
                          dl_info[i].DICOM_windows \in MalformedWindowCells})
    /\ \A i \in 1..Len(dl_info) :
         \A p \in GoodSlices(StudyOf(dl_info[i].File_name)) :
           /\ p \in DOMAIN out
           /\ (\A j \in 1..Len(dl_info) :
                 StudyOf(dl_info[j].File_name) = p[1] => j = i)
              => out[p] = Window8(Imread(p[1], p[2]), ExpectedBounds(i)[1],
                                  ExpectedBounds(i)[2], nanCast)

\* C14: when a run that wrote slices completes, it has reported a final count equal to the
\* number of slices written, and a list of skipped items holding exactly
\* the slices and rows that failed.
C14_FinalReport ==
  (pc = "done" /\ out # EmptyFn) =>
    \E i \in 1..Len(log) :
      /\ log[i].kind = "Run summary"
      /\ log[i].file = <<Cardinality(DOMAIN out),
                          {p \in InputPaths : p \notin DOMAIN out}>>

(***************************************************************************)
(* Where the pass reads and writes (lines 188-189, 208-213, 224, 232-233)  *)
(*                                                                         *)
(* A location is the sequence of its path components from the file system  *)
(* root.  Cwd is the working directory; D stands for the component pair    *)
(* DeepLesion/deeplesion_images, I for Images_png and O for Images_png_wn.  *)
(***************************************************************************)
Cwd == <<<<"w">>>>

dir_in == <<<<"D">>, <<"I">>>>

dir_out == <<<<"D">>, <<"O">>>>

\* The components of a path string: the pieces between slashes.
RECURSIVE SplitSlash(_)
SplitSlash(s) ==
  LET RECURSIVE FirstSlash(_)
      FirstSlash(i) ==
        IF i > Len(s) THEN 0 ELSE IF s[i] = "/" THEN i ELSE FirstSlash(i + 1)
      k == FirstSlash(1)
  IN IF k = 0 THEN <<s>>
     ELSE <<SubSeq(s, 1, k - 1)>> \o SplitSlash(SubSeq(s, k + 1, Len(s)))

\* What the file system makes of a component sequence: empty components
\* and "." are skipped, ".." leaves the directory reached so far.
RECURSIVE Resolve(_, _)
Resolve(acc, comps) ==
  IF comps = <<>> THEN acc
  ELSE LET c == Head(comps)
       IN IF c = <<>> \/ c = <<".">> THEN Resolve(acc, Tail(comps))
          ELSE IF c = <<".", ".">>
            THEN Resolve(IF acc = <<>> THEN acc ELSE SubSeq(acc, 1, Len(acc) - 1),
                         Tail(comps))
          ELSE Resolve(Append(acc, c), Tail(comps))

\* The directory os.path.join(base, f) names: f alone when it is absolute,
\* base followed by f otherwise, relative to the working directory.
JoinedDir(base, f) ==
  IF f # <<>> /\ f[1] = "/" THEN Resolve(<<>>, SplitSlash(f))
  ELSE Resolve(<<>>, Cwd \o base \o SplitSlash(f))

\* subdir_in and subdir_out of lines 209-210.
SubdirIn(f) == JoinedDir(dir_in, f)

SubdirOut(f) == JoinedDir(dir_out, f)

InRoot == Resolve(<<>>, Cwd \o dir_in)

IsPrefix(a, b) == Len(a) <= Len(b) /\ SubSeq(b, 1, Len(a)) = a

\* The entries of the directory at location d of the raw image store.
ListAt(d) ==
  IF \E x \in DOMAIN InputTree : d = Append(InRoot, x)
    THEN InputTree[CHOOSE x \in DOMAIN InputTree : d = Append(InRoot, x)]
  ELSE {}

\* The directories that exist before the pass: the raw image store and
\* everything above it.
ExistingDirs ==
  {SubSeq(InRoot, 1, n) : n \in 0..Len(InRoot)}
    \cup {Append(InRoot, x) : x \in DOMAIN InputTree}

FN_up == Str(<<".", ".", "/", "I", "/", "a", "_", "b", "_", "1">>)

FN_abs == Str(<<"/", "w", "/", "D", "/", "I", "/", "c", "_", "1">>)

FN_dot == Str(<<".", "/", "c", "_", "1">>)

PathFileNames == {FN_ab1, FN_ab2, FN_c1, FN_x, FN_up, FN_abs, FN_dot}

InitPaths ==
  /\ dl_info \in [1..1 -> {Row(fn, w) : fn \in PathFileNames, w \in WindowCells}]
  /\ imwriteResult = [p \in OutPaths |-> "ok"]
  /\ nanCast \in NaNCastOutcomes
  /\ pc = "row"
  /\ idx = 1
  /\ folder = <<>>
  /\ clip_min = DefaultClipMin
  /\ clip_max = DefaultClipMax
  /\ images = <<>>
  /\ out = EmptyFn
  /\ dirs = {}
  /\ log = <<>>
  /\ writes = EmptyFn
  /\ image = ImreadNone
  /\ raw = ImreadNone
  /\ DetIdle
  /\ AuxIdle

\* Lines 208-224 with the locations of the two subdirectories: dirs holds
\* the directories the pass has created.
PathRowStep ==
  /\ pc = "row"
  /\ LET row == dl_info[idx]
         f == RSplitHead(row.File_name.s)
         b == ClipBounds(row.DICOM_windows)
         ims == SortedSeq({e.name : e \in {x \in ListAt(SubdirIn(f)) : x.ext = "png"}})
     IN /\ folder' = f
        /\ dirs' = IF SubdirOut(f) \in ExistingDirs \cup dirs THEN dirs
                   ELSE dirs \cup {SubdirOut(f)}
        /\ clip_min' = b[1]
        /\ clip_max' = b[2]
        /\ log' = IF DICOMWindows(row.DICOM_windows).ok THEN log
                  ELSE Append(log, WindowDiag(row.File_name))
        /\ images' = ims
        /\ idx' = idx
        /\ pc' = IF ims = <<>> THEN "done" ELSE "slices"
  /\ UNCHANGED <<dl_info, imwriteResult, nanCast, out, writes, image, raw>>
  /\ UNCHANGED detVars
  /\ UNCHANGED auxVars

\* Lines 225-237 on the next slice: out maps the location written by
\* cv2.imwrite to the image written there.
PathSliceStep ==
  /\ pc = "slices"
  /\ LET n == Head(images)
         data == (CHOOSE e \in ListAt(SubdirIn(folder)) : e.name = n).data
         res == Window8(data, clip_min, clip_max, nanCast)
         at == [dir |-> SubdirOut(folder), name |-> n]
     IN IF data = ImreadNone
          THEN /\ log' = Append(log, ConvertDiag(folder, n))
               /\ image' = ImreadNone /\ raw' = ImreadNone
               /\ UNCHANGED <<out, writes>>
          ELSE /\ out' = Put(out, at, res)
               /\ writes' = Put(writes, at, Count(writes, at) + 1)
               /\ image' = res /\ raw' = data
               /\ log' = log
  /\ images' = Tail(images)
  /\ pc' = IF Tail(images) = <<>> THEN "done" ELSE "slices"
  /\ UNCHANGED <<dl_info, imwriteResult, nanCast, idx, folder, clip_min, clip_max, dirs>>
  /\ UNCHANGED detVars
  /\ UNCHANGED auxVars

NextPaths == PathRowStep \/ PathSliceStep

SpecPaths == InitPaths /\ [][NextPaths]_vars

\* C15: the pass creates no directory and writes no file at or below the
\* root of the raw image store.
C15_InputStoreReadOnly ==
  pc \in {"row", "slices", "done"} =>
    /\ \A d \in dirs : ~IsPrefix(InRoot, d)
    /\ \A k \in DOMAIN out : ~IsPrefix(InRoot, k.dir)

(***************************************************************************)
(* Detection converter (src/unnamed/part_002, lines 290-337)               *)
(*                                                                         *)
(* A number is the integer count of its thousandths, so 0.2 is 200 and     *)
(* halving a number with at most two decimals is exact; the rounding       *)
(* error of binary floating point is not represented.  A prediction file   *)
(* is the sequence of its lines without their newline, each line a tuple   *)
(* of characters.  An array is the sequence of its rows.                   *)
(***************************************************************************)
MaxLines == 2

MaxConverts == 2

Thousand == 1000

Blanks == {" ", "\t"}

\* Leading and trailing whitespace removed, as float() does with its
\* argument.
RECURSIVE StripBlanks(_)
StripBlanks(s) ==
  IF s = <<>> THEN s
  ELSE IF Head(s) \in Blanks THEN StripBlanks(Tail(s))
  ELSE IF s[Len(s)] \in Blanks THEN StripBlanks(SubSeq(s, 1, Len(s) - 1))
  ELSE s

AllDigits(s) == \A i \in 1..Len(s) : s[i] \in Digits

\* The unsigned decimal forms float() accepts on the model's alphabet:
\* digits, digits.digits, digits. and .digits
UnsignedOk(u) ==
  LET k == LastIndexOf(u, ".", Len(u))
  IN IF k = 0 THEN IsDigits(u)
     ELSE /\ AllDigits(SubSeq(u, 1, k - 1))
          /\ AllDigits(SubSeq(u, k + 1, Len(u)))
          /\ Len(u) > 1

\* The thousandths of an unsigned decimal; decimals after the third are
\* dropped.
UnsignedVal(u) ==
  LET k == LastIndexOf(u, ".", Len(u))
      ip == IF k = 0 THEN u ELSE SubSeq(u, 1, k - 1)
      fp == IF k = 0 THEN <<>> ELSE SubSeq(u, k + 1, Len(u))
      f3 == SubSeq(fp \o <<"0", "0", "0">>, 1, 3)
  IN DigitsValue(ip, 0) * Thousand + DigitsValue(f3, 0)

\* Variant of PyFloat that reads zero where float raises.
PyFloatZeroOnJunk(l) ==
  LET t == StripBlanks(l)
      signed == t # <<>> /\ Head(t) \in {"-", "+"}
      u == IF signed THEN Tail(t) ELSE t
  IN IF UnsignedOk(u)
       THEN [ok |-> TRUE,
             v |-> IF signed /\ Head(t) = "-" THEN 0 - UnsignedVal(u)
                   ELSE UnsignedVal(u)]
       ELSE [ok |-> TRUE, v |-> 0]

\* float(l) of line 299: ok is FALSE where float raises ValueError.
PyFloat(l) ==
  LET t == StripBlanks(l)
      signed == t # <<>> /\ Head(t) \in {"-", "+"}
      u == IF signed THEN Tail(t) ELSE t
  IN IF UnsignedOk(u)
       THEN [ok |-> TRUE,
             v |-> IF signed /\ Head(t) = "-" THEN 0 - UnsignedVal(u)
                   ELSE UnsignedVal(u)]
       ELSE [ok |-> FALSE, v |-> 0]

\* line.split(' ') of line 296: the pieces between single spaces, so two
\* adjacent spaces enclose an empty piece.
RECURSIVE SplitSpace(_)
SplitSpace(s) ==
  LET RECURSIVE FirstSpace(_)
      FirstSpace(i) ==
        IF i > Len(s) THEN 0 ELSE IF s[i] = " " THEN i ELSE FirstSpace(i + 1)
      k == FirstSpace(1)
  IN IF k = 0 THEN <<s>>
     ELSE <<SubSeq(s, 1, k - 1)>> \o SplitSpace(SubSeq(s, k + 1, Len(s)))

\* The result of a call: err is "none" when the call returns.
Returned(val) == [err |-> "none", val |-> val]

Raised(e) == [err |-> e, val |-> <<>>]

MissingFile == [exists |-> FALSE, lines |-> <<>>]

FileOf(ls) == [exists |-> TRUE, lines |-> ls]

\* Variant of read_yolo_detections_file without the os.path.exists test:
\* open() raises on a missing file.
read_yolo_detections_fileNoExistsTest(pf) ==
  LET toks == [i \in 1..Len(pf.lines) |-> SplitSpace(pf.lines[i])]
      bad == \E i \in 1..Len(toks) : \E j \in 1..Len(toks[i]) : ~PyFloat(toks[i][j]).ok
      ragged == \E i, j \in 1..Len(toks) : Len(toks[i]) # Len(toks[j])
  IN IF ~pf.exists THEN Raised("FileNotFoundError")
     ELSE IF bad \/ ragged THEN Raised("ValueError")
     ELSE Returned([i \in 1..Len(toks) |->
                     [j \in 1..Len(toks[i]) |-> PyFloat(toks[i][j]).v]])

\* read_yolo_detections_file (lines 290-301): the empty array for a missing
\* file; otherwise one row of numbers per line.  float raises ValueError on
\* a piece that is not a number, and np.array raises ValueError on rows of
\* different lengths.
read_yolo_detections_file(pf) ==
  LET toks == [i \in 1..Len(pf.lines) |-> SplitSpace(pf.lines[i])]
      bad == \E i \in 1..Len(toks) : \E j \in 1..Len(toks[i]) : ~PyFloat(toks[i][j]).ok
      ragged == \E i, j \in 1..Len(toks) : Len(toks[i]) # Len(toks[j])
  IN IF ~pf.exists THEN Returned(<<>>)
     ELSE IF bad \/ ragged THEN Raised("ValueError")
     ELSE Returned([i \in 1..Len(toks) |->
                     [j \in 1..Len(toks[i]) |-> PyFloat(toks[i][j]).v]])

L_ex == <<"2", " ", "0", ".", "5", " ", "0", ".", "5", " ", "0", ".", "2", " ", "0", ".", "4", " ", "0", ".", "9">>

L_dy == <<"0", " ", "0", ".", "2", "5", " ", "0", ".", "7", "5", " ", "0", ".", "5", " ", "0", ".", "2", "5", " ", "0", ".", "5">>

L_big == <<"5", " ", "0", ".", "5", " ", "0", ".", "5", " ", "0", ".", "2", " ", "0", ".", "4", " ", "0", ".", "9">>

L_neg == <<"-", "1", " ", "0", ".", "5", " ", "0", ".", "5", " ", "0", ".", "2", " ", "0", ".", "4", " ", "0", ".", "9">>

L_5 == <<"1", " ", "0", ".", "5", " ", "0", ".", "5", " ", "0", ".", "2", " ", "0", ".", "4">>

L_7 == <<"1", " ", "0", ".", "5", " ", "0", ".", "5", " ", "0", ".", "2", " ", "0", ".", "4", " ", "0", ".", "9", " ", "0", ".", "8">>

L_dbl == <<"1", " ", " ", "0", ".", "5", " ", "0", ".", "5", " ", "0", ".", "2", " ", "0", ".", "4", " ", "0", ".", "9">>

L_trail == <<"1", " ", "0", ".", "5", " ", "0", ".", "5", " ", "0", ".", "2", " ", "0", ".", "4", " ", "0", ".", "9", " ">>

L_tab == <<"1", "\t", "0", ".", "5", " ", "0", ".", "5", " ", "0", ".", "2", " ", "0", ".", "4", " ", "0", ".", "9">>

L_abc == <<"x", " ", "0", ".", "5", " ", "0", ".", "5", " ", "0", ".", "2", " ", "0", ".", "4", " ", "0", ".", "9">>

L_blank == <<>>

L_4 == <<"1", " ", "0", ".", "5", " ", "0", ".", "5", " ", "0", ".", "2">>

DetLines ==
  {L_ex, L_dy, L_big, L_neg, L_4, L_5, L_7, L_dbl, L_trail, L_tab, L_abc, L_blank}

\* The outcome of a call that works on the caller's array: arr is the
\* array as the call leaves it.
Outcome(e, a, val) == [err |-> e, arr |-> a, val |-> val]

\* Column c of every row lowered by half of column by.
ShiftCol(a, c, by) ==
  [i \in 1..Len(a) |-> [a[i] EXCEPT ![c] = a[i][c] - (a[i][by] \div 2)]]

\* Column c of every row lowered by the whole of column by.
ShiftColWhole(a, c, by) ==
  [i \in 1..Len(a) |-> [a[i] EXCEPT ![c] = a[i][c] - a[i][by]]]

\* The number of columns of the slice [:, 1:-1] of an array.
BoxCols(a) == Max2(Len(a[1]) - 2, 0)

\* Variant of _uncenter_boxes that subtracts the whole width and height.
_uncenter_boxesWhole(a) ==
  IF BoxCols(a) < 3 THEN Outcome("IndexError", a, <<>>)
  ELSE IF BoxCols(a) < 4 THEN Outcome("IndexError", ShiftColWhole(a, 2, 4), <<>>)
  ELSE Outcome("none", ShiftColWhole(ShiftColWhole(a, 2, 4), 3, 5), <<>>)

\* _uncenter_boxes (lines 329-332) on the view [:, 1:-1] of array a: box
\* column k is array column k + 2 here.  Each statement updates a whole
\* column in place and raises IndexError when a column it names is absent,
\* so a three-column view is left with its first column already shifted.
_uncenter_boxes(a) ==
  IF BoxCols(a) < 3 THEN Outcome("IndexError", a, <<>>)
  ELSE IF BoxCols(a) < 4 THEN Outcome("IndexError", ShiftCol(a, 2, 4), <<>>)
  ELSE Outcome("none", ShiftCol(ShiftCol(a, 2, 4), 3, 5), <<>>)

\* astype(int): the fractional part is dropped, towards zero.
AsInt(v) == IF v >= 0 THEN v \div Thousand ELSE 0 - ((0 - v) \div Thousand)

\* class_list[l] of a Python list: a negative index counts from the end,
\* an index outside -len .. len-1 raises IndexError.
ListIndexOk(cl, l) == 0 - Len(cl) <= l /\ l < Len(cl)

ListItem(cl, l) == IF l >= 0 THEN cl[l + 1] ELSE cl[Len(cl) + l + 1]

\* Variant of _get_class_labels that clamps the index into the list.
_get_class_labelsClamped(predicted_classes, cl) ==
  LET labels == [i \in 1..Len(predicted_classes) |-> AsInt(predicted_classes[i])]
  IN Returned([i \in 1..Len(labels) |->
                 ListItem(cl, Max2(0, Min2(labels[i], Len(cl) - 1)))])

\* _get_class_labels (lines 334-337)
_get_class_labels(predicted_classes, cl) ==
  LET labels == [i \in 1..Len(predicted_classes) |-> AsInt(predicted_classes[i])]
  IN IF \E i \in 1..Len(labels) : ~ListIndexOk(cl, labels[i])
       THEN Raised("IndexError")
       ELSE Returned([i \in 1..Len(labels) |-> ListItem(cl, labels[i])])

Detection(label, box, conf) ==
  [label |-> label, bounding_box |-> box, confidence |-> conf]

\* Variant of ZipDetections that returns the detections last row first.
ZipDetectionsReversed(labels, a) ==
  [i \in 1..Len(a) |->
     LET k == Len(a) + 1 - i
     IN Detection(labels[k], SubSeq(a[k], 2, Len(a[k]) - 1), a[k][Len(a[k])])]

\* The detections built by the loop of lines 318-325.
ZipDetections(labels, a) ==
  [i \in 1..Len(a) |->
     Detection(labels[i], SubSeq(a[i], 2, Len(a[i]) - 1), a[i][Len(a[i])])]

\* Variant of convert_yolo_detections_to_fiftyone without the size test:
\* slicing the empty one-dimensional array with [:, 1:-1] raises.
convert_yolo_detections_to_fiftyoneNoSizeTest(a, cl) ==
  IF a = <<>> THEN Outcome("IndexError", a, <<>>)
  ELSE LET u == _uncenter_boxes(a)
           g == _get_class_labels([i \in 1..Len(a) |-> a[i][1]], cl)
       IN IF u.err # "none" THEN u
          ELSE IF g.err # "none" THEN Outcome(g.err, u.arr, <<>>)
          ELSE Outcome("none", u.arr, ZipDetections(g.val, u.arr))

\* convert_yolo_detections_to_fiftyone (lines 303-327): val is the list of
\* detections returned, arr the caller's array after the call.
convert_yolo_detections_to_fiftyone(a, cl) ==
  IF a = <<>> THEN Outcome("none", a, <<>>)
  ELSE LET u == _uncenter_boxes(a)
           g == _get_class_labels([i \in 1..Len(a) |-> a[i][1]], cl)
       IN IF u.err # "none" THEN u
          ELSE IF g.err # "none" THEN Outcome(g.err, u.arr, <<>>)
          ELSE Outcome("none", u.arr, ZipDetections(g.val, u.arr))

SeqsUpTo(S, n) == UNION {[1..k -> S] : k \in 0..n}

PredictionFiles == {MissingFile} \cup {FileOf(ls) : ls \in SeqsUpTo(DetLines, MaxLines)}

ClassLists == {<<"a", "b", "c">>, <<"a", "b">>}

\* The windowing pass is not running.
WinIdle ==
  /\ dl_info = <<>>
  /\ imwriteResult = [p \in OutPaths |-> "ok"]
  /\ nanCast = 0
  /\ pc = "idle"
  /\ idx = 1
  /\ folder = <<>>
  /\ clip_min = DefaultClipMin
  /\ clip_max = DefaultClipMax
  /\ images = <<>>
  /\ out = EmptyFn
  /\ dirs = {}
  /\ log = <<>>
  /\ writes = EmptyFn
  /\ image = ImreadNone
  /\ raw = ImreadNone

InitDet ==
  /\ WinIdle
  /\ prediction_file \in PredictionFiles
  /\ class_list \in ClassLists
  /\ yolo_detections = <<>>
  /\ detections = <<>>
  /\ dpc = "start"
  /\ error = "none"
  /\ nconv = 0
  /\ AuxIdle

\* yolo_detections = read_yolo_detections_file(pf)
ReadStep ==
  /\ dpc = "start"
  /\ LET r == read_yolo_detections_file(prediction_file)
     IN IF r.err = "none"
          THEN yolo_detections' = r.val /\ dpc' = "read" /\ error' = error
          ELSE yolo_detections' = yolo_detections /\ dpc' = "raised" /\ error' = r.err
  /\ UNCHANGED <<prediction_file, class_list, detections, nconv>>
  /\ UNCHANGED winVars
  /\ UNCHANGED auxVars

\* detections = convert_yolo_detections_to_fiftyone(yolo_detections,
\* class_list), called on the array read, at most MaxConverts times.
ConvertStep ==
  /\ dpc \in {"read", "converted"}
  /\ nconv < MaxConverts
  /\ LET c == convert_yolo_detections_to_fiftyone(yolo_detections, class_list)
     IN /\ yolo_detections' = c.arr
        /\ IF c.err = "none"
             THEN detections' = c.val /\ dpc' = "converted" /\ error' = error
             ELSE detections' = detections /\ dpc' = "raised" /\ error' = c.err
  /\ nconv' = nconv + 1
  /\ UNCHANGED <<prediction_file, class_list>>
  /\ UNCHANGED winVars
  /\ UNCHANGED auxVars

NextDet == ReadStep \/ ConvertStep

SpecDet == InitDet /\ [][NextDet]_vars

(***************************************************************************)
(* Claims about the detection converter                                    *)
(***************************************************************************)
ClassesABC == <<"a", "b", "c">>

\* The records (class_index, center_x, center_y, width, height,
\* confidence) written on the six-field lines, in thousandths except the
\* class index.
RecordOf(l) ==
  CASE l = L_ex -> <<2, 500, 500, 200, 400, 900>>
    [] l = L_dy -> <<0, 250, 750, 500, 250, 500>>
    [] l = L_big -> <<5, 500, 500, 200, 400, 900>>
    [] l = L_neg -> <<-1, 500, 500, 200, 400, 900>>

RecordLines == {L_ex, L_dy, L_big, L_neg}

\* The prediction file exists and every line of it is a six-field record.
RecordFile ==
  /\ prediction_file.exists
  /\ \A i \in 1..Len(prediction_file.lines) : prediction_file.lines[i] \in RecordLines

RecordAt(i) == RecordOf(prediction_file.lines[i])

IndexInRange(i) == RecordAt(i)[1] \in 0..(Len(class_list) - 1)

\* The detection the record of line i stands for.
ExpectedDetection(i) ==
  LET r == RecordAt(i)
  IN Detection(class_list[r[1] + 1],
               <<r[2] - (r[4] \div 2), r[3] - (r[5] \div 2), r[4], r[5]>>,
               r[6])

\* C16: when the prediction file does not exist, reading it gives the empty
\* array, converting that gives an empty detection collection, and neither
\* call raises.
C16_MissingFileGivesEmpty ==
  ~prediction_file.exists =>
    /\ dpc # "raised" /\ error = "none"
    /\ dpc \in {"read", "converted"} => yolo_detections = <<>>
    /\ dpc = "converted" => detections = <<>>

C16_Witness ==
  /\ ~prediction_file.exists
  /\ dpc = "converted"
  /\ detections = <<>>

\* C17: when the prediction file exists and has no lines, reading and
\* converting it gives an empty detection collection and raises nothing.
C17_EmptyFileGivesEmpty ==
  (prediction_file.exists /\ prediction_file.lines = <<>>) =>
    /\ dpc # "raised" /\ error = "none"
    /\ dpc = "converted" => detections = <<>>

C17_Witness ==
  /\ prediction_file.exists /\ prediction_file.lines = <<>>
  /\ dpc = "converted"
  /\ detections = <<>>

\* C18: a file of six-field records with class indices in range converts
\* without error, and after the conversion the detection of each record
\* has the box [center_x - width/2, center_y - height/2, width, height],
\* the record's confidence and the label class_list[class_index]; the line
\* "2 0.5 0.5 0.2 0.4 0.9" with classes [a, b, c] gives label c, box
\* [0.4, 0.3, 0.2, 0.4] and confidence 0.9.
C18_RecordToDetection ==
  /\ (RecordFile /\ \A i \in 1..Len(prediction_file.lines) : IndexInRange(i)) =>
       /\ dpc # "raised"
       /\ (dpc = "converted" /\ nconv = 1) =>
            /\ Len(detections) = Len(prediction_file.lines)
            /\ \A i \in 1..Len(detections) : detections[i] = ExpectedDetection(i)
  /\ (prediction_file = FileOf(<<L_ex>>) /\ class_list = ClassesABC
        /\ dpc = "converted" /\ nconv = 1) =>
       detections = <<Detection("c", <<400, 300, 200, 400>>, 900)>>

C18_Witness ==
  /\ prediction_file = FileOf(<<L_ex, L_dy>>)
  /\ class_list = ClassesABC
  /\ dpc = "converted" /\ nconv = 1
  /\ detections = <<Detection("c", <<400, 300, 200, 400>>, 900),
                    Detection("a", <<0, 625, 500, 250>>, 500)>>

\* C19: when a record's class index is greater than or equal to the length
\* of the class list, the conversion raises IndexError and returns no
\* detections.
C19_IndexTooLargeRaises ==
  (/\ RecordFile
   /\ \E i \in 1..Len(prediction_file.lines) : RecordAt(i)[1] >= Len(class_list)
   /\ dpc \notin {"start", "read"}) =>
    /\ dpc = "raised"
    /\ error = "IndexError"
    /\ detections = <<>>

C19_Witness ==
  /\ prediction_file = FileOf(<<L_ex, L_big>>)
  /\ class_list = ClassesABC
  /\ dpc = "raised"
  /\ error = "IndexError"
  /\ nconv = 1

\* C20: every detection returned for a file of records carries the label
\* at its record's own index, which lies in 0 .. len(class_list)-1; a
\* record with an index outside that range, negative ones included, makes
\* the conversion fail.
C20_NoSilentLabel ==
  (RecordFile /\ dpc = "converted") =>
    \A i \in 1..Len(prediction_file.lines) :
      /\ IndexInRange(i)
      /\ i \in 1..Len(detections)
      /\ detections[i].label = class_list[RecordAt(i)[1] + 1]

\* C21: a file of n six-field records with class indices in range gives
\* exactly n detections, and the i-th detection carries the label, the
\* confidence, the width and the height of the i-th line.
C21_OrderAndCountPreserved ==
  (/\ RecordFile
   /\ \A i \in 1..Len(prediction_file.lines) : IndexInRange(i)
   /\ dpc = "converted") =>
    /\ Len(detections) = Len(prediction_file.lines)
    /\ \A i \in 1..Len(detections) :
         /\ detections[i].label = ExpectedDetection(i).label
         /\ detections[i].confidence = RecordAt(i)[6]
         /\ SubSeq(detections[i].bounding_box, 3, 4) = <<RecordAt(i)[4], RecordAt(i)[5]>>

C21_Witness ==
  /\ prediction_file = FileOf(<<L_dy, L_ex>>)
  /\ class_list = ClassesABC
  /\ dpc = "converted"
  /\ Len(detections) = 2
  /\ detections[1].label = "a" /\ detections[1].confidence = 500
  /\ detections[2].label = "c" /\ detections[2].confidence = 900

\* The fields written on the five-field and seven-field lines.
FieldsOf(l) ==
  CASE l = L_5 -> <<1000, 500, 500, 200, 400>>
    [] l = L_7 -> <<1000, 500, 500, 200, 400, 900, 800>>

\* Every line of the file has the same number, five or seven, of numeric
\* fields.
WideFile ==
  /\ prediction_file.exists
  /\ prediction_file.lines # <<>>
  /\ \/ \A i \in 1..Len(prediction_file.lines) : prediction_file.lines[i] = L_5
     \/ \A i \in 1..Len(prediction_file.lines) : prediction_file.lines[i] = L_7

\* C22: a line with five or more numeric fields converts; its class index
\* is the first field, its confidence the last field, and its box has
\* exactly four elements, built from the four fields after the class
\* index.
C22_BoxFromFourFields ==
  (WideFile /\ 1 < Len(class_list)) =>
    /\ dpc # "raised"
    /\ (dpc = "converted" /\ nconv = 1) =>
         \A i \in 1..Len(detections) :
           LET f == FieldsOf(prediction_file.lines[i])
           IN /\ detections[i].label = class_list[2]
              /\ detections[i].confidence = f[Len(f)]
              /\ detections[i].bounding_box =
                   <<f[2] - (f[4] \div 2), f[3] - (f[5] \div 2), f[4], f[5]>>

\* The same property for seven-field lines only.
C22_SevenFields ==
  (prediction_file = FileOf(<<L_7>>) /\ dpc = "converted" /\ nconv = 1) =>
    Len(detections[1].bounding_box) = 4

\* Lines with a field that is not a number (an empty piece included) and
\* lines with fewer than five fields.
NonNumericLines == {L_abc, L_blank}

TooFewFieldsLines == {L_4}

MalformedLines == NonNumericLines \cup TooFewFieldsLines

\* C23: when some line of the file has a non-numeric field or too few
\* fields, reading or converting the file raises an error and no detection
\* is returned, not even for the well-formed lines.
C23_MalformedLineFailsWholeFile ==
  (/\ prediction_file.exists
   /\ \E i \in 1..Len(prediction_file.lines) : prediction_file.lines[i] \in MalformedLines) =>
    /\ dpc # "converted"
    /\ detections = <<>>
    /\ dpc \in {"start", "read"} => nconv = 0
    /\ dpc = "raised" => error \in {"ValueError", "IndexError"}

C23_Witness ==
  /\ prediction_file = FileOf(<<L_ex, L_abc>>)
  /\ dpc = "raised"
  /\ error = "ValueError"
  /\ detections = <<>>

\* A file of too-short lines is read and fails in the conversion.
C23_WitnessTooFew ==
  /\ prediction_file = FileOf(<<L_4, L_4>>)
  /\ dpc = "raised"
  /\ error = "IndexError"
  /\ nconv = 1
  /\ detections = <<>>

\* The record written on the lines L_dbl, L_trail and L_tab when their
\* whitespace is read as one separator.
SpacedRecord == <<1000, 500, 500, 200, 400, 900>>

SpacedLines == {L_dbl, L_trail, L_tab}

\* C24: a line whose fields are separated by several spaces or a tab, or
\* that ends in a space, is read as the record of the same fields
\* separated by single spaces.
C24_WhitespaceSeparated ==
  (/\ prediction_file.exists
   /\ \A i \in 1..Len(prediction_file.lines) : prediction_file.lines[i] \in SpacedLines) =>
    /\ dpc # "raised"
    /\ dpc = "read" =>
         yolo_detections = [i \in 1..Len(prediction_file.lines) |-> SpacedRecord]

\* C25: a conversion leaves the array it is given as it was read, and a
\* repeated conversion of the same array returns the same boxes as the
\* first one.
C25_ArrayUnchanged ==
  (/\ RecordFile
   /\ \A i \in 1..Len(prediction_file.lines) : IndexInRange(i)
   /\ dpc = "converted") =>
    /\ \A i \in 1..Len(yolo_detections) :
         yolo_detections[i] = [RecordAt(i) EXCEPT ![1] = @ * Thousand]
    /\ \A i \in 1..Len(detections) :
         detections[i].bounding_box = ExpectedDetection(i).bounding_box

\* The boxes alone: every conversion returns the boxes of the records.
C25_SameBoxesTwice ==
  (/\ RecordFile
   /\ \A i \in 1..Len(prediction_file.lines) : IndexInRange(i)
   /\ dpc = "converted") =>
    \A i \in 1..Len(detections) :
      detections[i].bounding_box = ExpectedDetection(i).bounding_box

(***************************************************************************)
(* add_yolo_detections (src/unnamed/part_002, lines 278-288)               *)
(*                                                                         *)
(* A batch is the sequence of the prediction files its samples point to;   *)
(* fields holds the prediction field of every sample.                      *)
(***************************************************************************)
MaxSamples == 2

UnsetField == [set |-> FALSE, val |-> <<>>]

FieldOf(d) == [set |-> TRUE, val |-> d]

\* The value a prediction field holds from an earlier run.
OldField == FieldOf(<<Detection("old", <<0, 0, 0, 0>>, 0)>>)

BatchFiles ==
  {MissingFile, FileOf(<<>>), FileOf(<<L_ex>>), FileOf(<<L_dy, L_ex>>),
   FileOf(<<L_abc>>), FileOf(<<L_big>>), FileOf(<<L_5>>)}

\* Variant of FirstError that reports no error.
FirstErrorNone(rs) == "none"

\* The error that ends a list comprehension over the calls with outcomes
\* rs: the error of the first call that raises, "none" when all return.
FirstError(rs) ==
  IF \A i \in 1..Len(rs) : rs[i].err = "none" THEN "none"
  ELSE rs[CHOOSE i \in 1..Len(rs) :
            /\ rs[i].err # "none"
            /\ \A j \in 1..(i - 1) : rs[j].err = "none"].err

InitBatch ==
  /\ WinIdle
  /\ prediction_file = MissingFile
  /\ class_list \in ClassLists
  /\ yolo_detections = <<>>
  /\ detections = <<>>
  /\ dpc = "idle"
  /\ error = "none"
  /\ nconv = 0
  /\ sample_files \in UNION {[1..n -> BatchFiles] : n \in 1..MaxSamples}
  /\ fields \in {[i \in 1..Len(sample_files) |-> UnsetField],
                 [i \in 1..Len(sample_files) |-> OldField]}
  /\ ylist = <<>>
  /\ dlist = <<>>
  /\ bpc = "start"
  /\ berror = "none"
  /\ ZipIdle
  /\ BalIdle
  /\ MergeIdle

\* Line 286: every prediction file is read, in sample order.
BatchReadStep ==
  /\ bpc = "start"
  /\ LET rs == [i \in 1..Len(sample_files) |-> read_yolo_detections_file(sample_files[i])]
         e == FirstError(rs)
     IN IF e = "none"
          THEN /\ ylist' = [i \in 1..Len(rs) |-> rs[i].val]
               /\ bpc' = "read" /\ berror' = berror
          ELSE /\ ylist' = ylist
               /\ bpc' = "raised" /\ berror' = e
  /\ UNCHANGED <<sample_files, fields, dlist>>
  /\ UNCHANGED <<winVars, detVars>>
  /\ UNCHANGED zipVars
  /\ UNCHANGED balVars
  /\ UNCHANGED mergeVars

\* Line 287: every array is converted, in sample order.
BatchConvertStep ==
  /\ bpc = "read"
  /\ LET cs == [i \in 1..Len(ylist) |->
                  convert_yolo_detections_to_fiftyone(ylist[i], class_list)]
         e == FirstError(cs)
     IN /\ ylist' = [i \in 1..Len(cs) |->
                       IF \A j \in 1..(i - 1) : cs[j].err = "none"
                         THEN cs[i].arr ELSE ylist[i]]
        /\ IF e = "none"
             THEN /\ dlist' = [i \in 1..Len(cs) |-> cs[i].val]
                  /\ bpc' = "converted" /\ berror' = berror
             ELSE /\ dlist' = dlist
                  /\ bpc' = "raised" /\ berror' = e
  /\ UNCHANGED <<sample_files, fields>>
  /\ UNCHANGED <<winVars, detVars>>
  /\ UNCHANGED zipVars
  /\ UNCHANGED balVars
  /\ UNCHANGED mergeVars

\* Line 288: samples.set_values(prediction_field, detections)
BatchSetStep ==
  /\ bpc = "converted"
  /\ fields' = [i \in 1..Len(dlist) |-> FieldOf(dlist[i])]
  /\ bpc' = "set"
  /\ UNCHANGED <<sample_files, ylist, dlist, berror>>
  /\ UNCHANGED <<winVars, detVars>>
  /\ UNCHANGED zipVars
  /\ UNCHANGED balVars
  /\ UNCHANGED mergeVars

NextBatch == BatchReadStep \/ BatchConvertStep \/ BatchSetStep

SpecBatch == InitBatch /\ [][NextBatch]_vars

\* The detections a batch file stands for, and whether reading or
\* converting it fails, under the class list of the call.
BatchFileFails(f) ==
  \/ f \in {FileOf(<<L_abc>>), FileOf(<<L_big>>), FileOf(<<L_5>>)}
  \/ f \in {FileOf(<<L_ex>>), FileOf(<<L_dy, L_ex>>)} /\ Len(class_list) < 3

BatchFileDetections(f) ==
  CASE f = FileOf(<<L_ex>>) -> <<Detection("c", <<400, 300, 200, 400>>, 900)>>
    [] f = FileOf(<<L_dy, L_ex>>) ->
         <<Detection("a", <<0, 625, 500, 250>>, 500),
           Detection("c", <<400, 300, 200, 400>>, 900)>>
    [] OTHER -> <<>>

SomeFileFails == \E i \in 1..Len(sample_files) : BatchFileFails(sample_files[i])

\* C26: when the prediction file of some sample fails to read or convert,
\* the call raises and no prediction field is set or changed; when the
\* call completes, every sample's field holds the detections of its own
\* prediction file, the empty collection for a missing file.
C26_AllOrNothing ==
  bpc # "idle" =>
    /\ bpc # "set" => \/ \A i \in 1..Len(fields) : fields[i] = UnsetField
                      \/ \A i \in 1..Len(fields) : fields[i] = OldField
    /\ SomeFileFails => bpc \in {"start", "read", "raised"}
    /\ bpc = "set" =>
         /\ Len(fields) = Len(sample_files)
         /\ \A i \in 1..Len(fields) :
              fields[i] = FieldOf(BatchFileDetections(sample_files[i]))

\* One sample's file fails after another's was read: nothing is set.
C26_Witness ==
  /\ Len(sample_files) = 2
  /\ sample_files[1] = FileOf(<<L_ex>>)
  /\ sample_files[2] = FileOf(<<L_abc>>)
  /\ bpc = "raised"
  /\ fields = <<OldField, OldField>>

\* A batch completes with a missing file among its samples.
C26_WitnessSet ==
  /\ sample_files = <<FileOf(<<L_dy, L_ex>>), MissingFile>>
  /\ bpc = "set"
  /\ fields[2] = FieldOf(<<>>)
  /\ fields[1] = FieldOf(BatchFileDetections(sample_files[1]))

(***************************************************************************)
(* Zip extraction pass (02_load_deeplesion_balanced.ipynb, lines 144-153)  *)
(*                                                                         *)
(* archives is the list zip_files; an archive is named by its position     *)
(* and described by how the file system treats it: "good", "badzip"        *)
(* (zipfile.ZipFile raises), "extract_fail" (extractall raises) or         *)
(* "remove_fail" (os.remove raises).                                       *)
(***************************************************************************)
MaxZips == 3

ArchiveKinds == {"good", "badzip", "extract_fail", "remove_fail"}

\* Variant of NextArchive that ends the pass.
NextArchiveStop(i, n) == "aborted"

\* Where the for loop of line 147 goes after archive i of n.
NextArchive(i, n) == IF i < n THEN "extract" ELSE "done"

InitZip ==
  /\ WinIdle
  /\ DetIdle
  /\ BatchIdle
  /\ archives \in UNION {[1..n -> ArchiveKinds] : n \in 0..MaxZips}
  /\ zidx = 1
  /\ zpc = IF archives = <<>> THEN "done" ELSE "extract"
  /\ on_disk = 1..Len(archives)
  /\ extracted = {}
  /\ zlog = <<>>
  /\ BalIdle
  /\ MergeIdle

\* Lines 148-150: the archive is opened and extracted; an exception is
\* caught at line 152 and printed, and the loop goes on.
ExtractStep ==
  /\ zpc = "extract"
  /\ IF archives[zidx] \in {"badzip", "extract_fail"}
       THEN /\ zlog' = Append(zlog, zidx)
            /\ zpc' = NextArchive(zidx, Len(archives))
            /\ zidx' = zidx + 1
            /\ extracted' = extracted
       ELSE /\ extracted' = extracted \cup {zidx}
            /\ zpc' = "remove"
            /\ UNCHANGED <<zlog, zidx>>
  /\ UNCHANGED <<archives, on_disk>>
  /\ UNCHANGED <<winVars, detVars, batchVars>>
  /\ UNCHANGED balVars
  /\ UNCHANGED mergeVars

\* Line 151: os.remove(zip_path), inside the same try block.
RemoveStep ==
  /\ zpc = "remove"
  /\ IF archives[zidx] = "remove_fail"
       THEN zlog' = Append(zlog, zidx) /\ on_disk' = on_disk
       ELSE zlog' = zlog /\ on_disk' = on_disk \ {zidx}
  /\ zpc' = NextArchive(zidx, Len(archives))
  /\ zidx' = zidx + 1
  /\ UNCHANGED <<archives, extracted>>
  /\ UNCHANGED <<winVars, detVars, batchVars>>
  /\ UNCHANGED balVars
  /\ UNCHANGED mergeVars

NextZip == ExtractStep \/ RemoveStep

SpecZip == InitZip /\ [][NextZip]_vars

ExtractionFails(i) == archives[i] \in {"badzip", "extract_fail"}

Printed(i) == \E k \in 1..Len(zlog) : zlog[k] = i

\* C27: an archive is gone from disk only if its extraction completed; an
\* archive whose extraction failed stays on disk with its failure printed;
\* the pass never stops early, and when it is done every archive has been
\* tried: extracted and removed, or printed as failed.
C27_DeleteOnlyAfterExtraction ==
  zpc # "idle" =>
    /\ zpc \in {"extract", "remove", "done"}
    /\ \A i \in 1..Len(archives) :
         /\ i \notin on_disk => i \in extracted
         /\ ExtractionFails(i) => i \in on_disk /\ i \notin extracted
         /\ (ExtractionFails(i) /\ (i < zidx)) => Printed(i)
         /\ zpc = "done" =>
              \/ ExtractionFails(i) /\ Printed(i)
              \/ archives[i] = "good" /\ i \in extracted /\ i \notin on_disk
              \/ archives[i] = "remove_fail" /\ i \in extracted /\ Printed(i)

\* A failed archive is followed by one that is extracted and removed.
C27_Witness ==
  /\ archives = <<"extract_fail", "good">>
  /\ zpc = "done"
  /\ on_disk = {1}
  /\ extracted = {2}
  /\ zlog = <<1>>

(***************************************************************************)
(* Balanced subset (02_load_deeplesion_balanced.ipynb, lines 551-585)      *)
(*                                                                         *)
(* dataset holds the samples: the id of a sample is its position, and a   *)
(* sample holds its lesion_diameters cell, its lesion_type, its            *)
(* short_diameter field (None until it is computed) and its tags.         *)
(* Diameters are numbers in thousandths.                                   *)
(***************************************************************************)
MaxDsSamples == 3

\* samples_per_class of line 573, 250 in the notebook.
samples_per_class == 1

DiameterLimit == 10

None == [isnum |-> FALSE, v |-> 0]

Num(v) == [isnum |-> TRUE, v |-> v]

\* diam_str.split(", "): the pieces between occurrences of a comma
\* followed by a space.
RECURSIVE SplitCommaSpace(_)
SplitCommaSpace(s) ==
  LET RECURSIVE FirstSep(_)
      FirstSep(i) ==
        IF i + 1 > Len(s) THEN 0
        ELSE IF s[i] = "," /\ s[i + 1] = " " THEN i ELSE FirstSep(i + 1)
      k == FirstSep(1)
  IN IF k = 0 THEN <<s>>
     ELSE <<SubSeq(s, 1, k - 1)>> \o SplitCommaSpace(SubSeq(s, k + 2, Len(s)))

RECURSIVE SeqMin(_)
SeqMin(q) == IF Len(q) = 1 THEN q[1] ELSE Min2(q[1], SeqMin(Tail(q)))

\* get_short_diameter (lines 551-556): the smallest of the numbers in the
\* cell; None when the cell is not a string or a piece is not a number.
get_short_diameter(cell) ==
  IF ~cell.isstr THEN None
  ELSE LET ps == SplitCommaSpace(cell.s)
       IN IF \E i \in 1..Len(ps) : ~PyFloat(ps[i]).ok THEN None
          ELSE Num(SeqMin([i \in 1..Len(ps) |-> PyFloat(ps[i]).v]))

D_12_11 == Str(<<"1", "2", ",", " ", "1", "1">>)

D_10_12 == Str(<<"1", "0", ",", " ", "1", "2">>)

D_105_11 == Str(<<"1", "0", ".", "5", ",", " ", "1", "1">>)

D_12c11 == Str(<<"1", "2", ",", "1", "1">>)

DiameterCells == {D_12_11, D_10_12, D_105_11, D_12c11, NaN}

LesionTypes == {1, 2}

DsSample(cell, lt) ==
  [lesion_diameters |-> cell, lesion_type |-> lt, short_diameter |-> None,
   tags |-> {"deeplesion"}]

\* The ids of filtered_view (line 566): short_diameter > 10, which no
\* sample without a short diameter satisfies.
FilteredIds(d) ==
  {i \in 1..Len(d) : d[i].short_diameter.isnum
                       /\ d[i].short_diameter.v > DiameterLimit * Thousand}

\* The ids of filtered_view.match(F("lesion_type") == lt) (line 577).
TypeIds(d, lt) == {i \in FilteredIds(d) : d[i].lesion_type = lt}

\* Variant of TakeCount without the limit.
TakeCountAll(n) == n

\* The number of samples take(samples_per_class) keeps of a view of n.
TakeCount(n) == Min2(n, samples_per_class)

InitBal ==
  /\ WinIdle
  /\ DetIdle
  /\ BatchIdle
  /\ ZipIdle
  /\ dataset \in UNION {[1..n -> {DsSample(c, lt) : c \in DiameterCells, lt \in LesionTypes}] :
                   n \in 1..MaxDsSamples}
  /\ lesion_types = <<>>
  /\ balanced_ids = <<>>
  /\ balpc = "start"
  /\ MergeIdle

\* Lines 558-570: short_diameter is computed and stored for every sample,
\* and the lesion types of the filtered view are listed.
DiameterStep ==
  /\ balpc = "start"
  /\ LET d == [i \in 1..Len(dataset) |->
                 [dataset[i] EXCEPT !.short_diameter = get_short_diameter(dataset[i].lesion_diameters)]]
     IN /\ dataset' = d
        /\ lesion_types' = SortedSeq({d[i].lesion_type : i \in FilteredIds(d)})
        /\ balpc' = IF FilteredIds(d) = {} THEN "select" ELSE "sample"
  /\ UNCHANGED balanced_ids
  /\ UNCHANGED <<winVars, detVars, batchVars, zipVars>>
  /\ UNCHANGED mergeVars

\* Lines 576-580 for the next lesion type: the shuffled view is cut to
\* samples_per_class samples, any of the view's samples in any order, and
\* their ids are appended.
SampleStep ==
  /\ balpc = "sample"
  /\ LET v == TypeIds(dataset, Head(lesion_types))
         k == TakeCount(Cardinality(v))
     IN \E ids \in [1..k -> v] :
          /\ \A i, j \in 1..k : ids[i] = ids[j] => i = j
          /\ balanced_ids' = balanced_ids \o ids
  /\ lesion_types' = Tail(lesion_types)
  /\ balpc' = IF Tail(lesion_types) = <<>> THEN "select" ELSE "sample"
  /\ UNCHANGED dataset
  /\ UNCHANGED <<winVars, detVars, batchVars, zipVars>>
  /\ UNCHANGED mergeVars

\* Lines 583-584: the samples with an id in balanced_ids are tagged.
TagStep ==
  /\ balpc = "select"
  /\ dataset' = [i \in 1..Len(dataset) |->
              IF \E k \in 1..Len(balanced_ids) : balanced_ids[k] = i
                THEN [dataset[i] EXCEPT !.tags = @ \cup {"balanced_subset"}]
                ELSE dataset[i]]
  /\ balpc' = "done"
  /\ UNCHANGED <<lesion_types, balanced_ids>>
  /\ UNCHANGED <<winVars, detVars, batchVars, zipVars>>
  /\ UNCHANGED mergeVars

NextBal == DiameterStep \/ SampleStep \/ TagStep

SpecBal == InitBal /\ [][NextBal]_vars

\* The short diameter written in a cell, in thousandths; -1 where the
\* cell does not parse.
ShortOf(cell) ==
  CASE cell = D_12_11 -> 11000
    [] cell = D_10_12 -> 10000
    [] cell = D_105_11 -> 10500
    [] OTHER -> -1

Selected(i) == \E k \in 1..Len(balanced_ids) : balanced_ids[k] = i

\* C28: the selected ids hold at most samples_per_class samples of each
\* lesion type and no sample twice, and only samples whose short diameter
\* is above 10; a sample whose diameters do not parse has short diameter
\* None and is never selected; when the cell is done, exactly the selected
\* samples carry the tag "balanced_subset".
C28_BalancedSubset ==
  balpc # "idle" =>
    /\ \A lt \in LesionTypes :
         Cardinality({k \in 1..Len(balanced_ids) :
                        dataset[balanced_ids[k]].lesion_type = lt}) <= samples_per_class
    /\ \A j, k \in 1..Len(balanced_ids) : balanced_ids[j] = balanced_ids[k] => j = k
    /\ \A i \in 1..Len(dataset) :
         /\ Selected(i) => ShortOf(dataset[i].lesion_diameters) > DiameterLimit * Thousand
         /\ balpc # "start" =>
              dataset[i].short_diameter =
                IF ShortOf(dataset[i].lesion_diameters) = -1 THEN None
                ELSE Num(ShortOf(dataset[i].lesion_diameters))
         /\ balpc = "done" => ("balanced_subset" \in dataset[i].tags <=> Selected(i))
         /\ balpc # "done" => "balanced_subset" \notin dataset[i].tags

\* A lesion type with more eligible samples than samples_per_class: the
\* limit is reached, and an eligible sample stays untagged next to an
\* unparsable one.
C28_Witness ==
  /\ balpc = "done"
  /\ \E lt \in LesionTypes :
       /\ Cardinality(TypeIds(dataset, lt)) > samples_per_class
       /\ Cardinality({i \in TypeIds(dataset, lt) : Selected(i)}) = samples_per_class
       /\ \E i \in TypeIds(dataset, lt) : "balanced_subset" \notin dataset[i].tags
  /\ \E i \in 1..Len(dataset) : dataset[i].short_diameter = None

(***************************************************************************)
(* ARCADE merge cell (src/unnamed/part_000, lines 144-192)                 *)
(*                                                                         *)
(* db is the FiftyOne database: a function from dataset names to the set   *)
(* of samples of the dataset.  A sample is named by its subset and its     *)
(* image number.  images_per gives the number of images of every subset,   *)
(* bad_subset the subset whose annotation directory does not hold exactly  *)
(* one JSON file (0 when there is none).                                   *)
(***************************************************************************)
MaxSubsetImages == 1

\* The dataset config of lines 135-142: subset_name, phase, task.
datasets ==
  <<[subset_name |-> "seg_train", phase |-> "phase_1", task |-> "segmentation"],
    [subset_name |-> "seg_val", phase |-> "phase_1", task |-> "segmentation"],
    [subset_name |-> "sten_train", phase |-> "phase_1", task |-> "stenosis"],
    [subset_name |-> "sten_val", phase |-> "phase_1", task |-> "stenosis"],
    [subset_name |-> "test_case_seg", phase |-> "final_phase", task |-> "segmentation"],
    [subset_name |-> "test_case_sten", phase |-> "final_phase", task |-> "stenosis"]>>

combined_dataset_name == <<"arcade_combined">>

\* temp_dataset_name of line 165.
TempName(i) == <<"arcade_combined", datasets[i].subset_name>>

NoDatasets == [n \in {} |-> {}]

\* The sample the importer builds for image k of subset i.
Imported(i, k) ==
  [img |-> <<i, k>>, phase |-> "None", task |-> "None", subset_name |-> "None",
   tags |-> {}]

\* A sample left in a dataset by an earlier run.
OldSample == [Imported(0, 0) EXCEPT !.tags = {"old"}]

\* Variant of DeleteIfExists that deletes nothing.
KeepIfExists(d, name) == d

\* if fo.dataset_exists(name): fo.delete_dataset(name)
DeleteIfExists(d, name) == [n \in DOMAIN d \ {name} |-> d[n]]

\* fo.Dataset(name): a new empty dataset; raises when the name is taken.
NameTaken(d, name) == name \in DOMAIN d

CreateDataset(d, name) == [n \in DOMAIN d \cup {name} |-> IF n = name THEN {} ELSE d[n]]

\* Lines 184-187 on one sample of subset i: the fields are set and the
\* three tags appended.
Labelled(s, i) ==
  [s EXCEPT !.phase = datasets[i].phase, !.task = datasets[i].task,
            !.subset_name = datasets[i].subset_name,
            !.tags = @ \cup {datasets[i].subset_name, datasets[i].task, datasets[i].phase}]

\* The databases an earlier run can have left: none, a completed run's
\* combined dataset, or the combined and one temporary dataset of a run
\* that stopped midway.
PriorDatabases ==
  {NoDatasets,
   CreateDataset(NoDatasets, combined_dataset_name)}
  \cup {[n \in {combined_dataset_name, TempName(i)} |-> {OldSample}] : i \in {2, 6}}

InitMerge ==
  /\ WinIdle
  /\ DetIdle
  /\ BatchIdle
  /\ ZipIdle
  /\ BalIdle
  /\ db \in PriorDatabases
  /\ images_per \in [1..Len(datasets) -> 0..MaxSubsetImages]
  /\ bad_subset \in 0..Len(datasets)
  /\ midx = 1
  /\ mpc = "start"

\* Lines 144-152: the combined dataset is deleted when it exists and
\* created anew.
CreateCombinedStep ==
  /\ mpc = "start"
  /\ LET d == DeleteIfExists(db, combined_dataset_name)
     IN IF NameTaken(d, combined_dataset_name)
          THEN db' = d /\ mpc' = "name_taken"
          ELSE db' = CreateDataset(d, combined_dataset_name) /\ mpc' = "load"
  /\ UNCHANGED <<images_per, bad_subset, midx>>
  /\ UNCHANGED <<winVars, detVars, batchVars, zipVars, balVars>>

\* Lines 155-180 for subset midx: the single JSON file is asserted, the
\* temporary dataset is deleted when it exists, created and filled by the
\* importer.
LoadSubsetStep ==
  /\ mpc = "load"
  /\ IF bad_subset = midx
       THEN db' = db /\ mpc' = "assertion_failed"
       ELSE LET d == DeleteIfExists(db, TempName(midx))
            IN IF NameTaken(d, TempName(midx))
                 THEN db' = d /\ mpc' = "name_taken"
                 ELSE /\ db' = [CreateDataset(d, TempName(midx)) EXCEPT
                                  ![TempName(midx)] =
                                    {Imported(midx, k) : k \in 1..images_per[midx]}]
                      /\ mpc' = "merge"
  /\ UNCHANGED <<images_per, bad_subset, midx>>
  /\ UNCHANGED <<winVars, detVars, batchVars, zipVars, balVars>>

\* Lines 182-192 for subset midx: every sample of the temporary dataset is
\* labelled, saved and added to the combined dataset as a copy; then the
\* temporary dataset is deleted.
MergeSubsetStep ==
  /\ mpc = "merge"
  /\ LET labelled == {Labelled(s, midx) : s \in db[TempName(midx)]}
         d == [db EXCEPT ![combined_dataset_name] = @ \cup labelled,
                         ![TempName(midx)] = labelled]
     IN db' = [n \in DOMAIN d \ {TempName(midx)} |-> d[n]]
  /\ midx' = midx + 1
  /\ mpc' = IF midx < Len(datasets) THEN "load" ELSE "done"
  /\ UNCHANGED <<images_per, bad_subset>>
  /\ UNCHANGED <<winVars, detVars, batchVars, zipVars, balVars>>

NextMerge == CreateCombinedStep \/ LoadSubsetStep \/ MergeSubsetStep

SpecMerge == InitMerge /\ [][NextMerge]_vars

\* The sample image k of subset i is to become in the combined dataset.
ExpectedSample(i, k) ==
  [img |-> <<i, k>>, phase |-> datasets[i].phase, task |-> datasets[i].task,
   subset_name |-> datasets[i].subset_name,
   tags |-> {datasets[i].subset_name, datasets[i].task, datasets[i].phase}]

\* C29: when the merge cell completes, the combined dataset holds exactly
\* the samples of the six subsets, each with the phase, task and
\* subset_name of its own subset as fields and as tags, and it is the only
\* dataset left; whatever datasets an earlier run left behind, no dataset
\* is ever created under a name that is taken and nothing of the earlier
\* combined dataset survives.
C29_MergeComplete ==
  mpc # "idle" =>
    /\ mpc # "name_taken"
    /\ mpc # "start" => OldSample \notin db[combined_dataset_name]
    /\ mpc = "done" =>
         /\ DOMAIN db = {combined_dataset_name}
         /\ db[combined_dataset_name] =
              UNION {{ExpectedSample(i, k) : k \in 1..images_per[i]} :
                     i \in 1..Len(datasets)}

\* A run that finds the combined dataset and a temporary dataset of an
\* earlier run completes with samples from the first and the last subset.
C29_Witness ==
  /\ mpc = "done"
  /\ DOMAIN db = {combined_dataset_name}
  /\ ExpectedSample(1, 1) \in db[combined_dataset_name]
  /\ ExpectedSample(6, 1) \in db[combined_dataset_name]
  /\ images_per[2] = 0

\* The bounds written in a window cell: its first two numbers, or the
\* defaults for a cell the try block of lines 216-218 fails on.
OwnBounds(cell) ==
  CASE cell = W_m2_2 -> <<-2, 2>>
    [] cell = W_0_4 -> <<0, 4>>
    [] cell = W_4_0 -> <<4, 0>>
    [] cell = W_2_2 -> <<2, 2>>
    [] cell = W_m2_2_5 -> <<-2, 2>>
    [] OTHER -> <<DefaultClipMin, DefaultClipMax>>

\* C30: while the slices of a row are processed, the clip bounds are that
\* row's own parsed bounds, or the defaults (-150, 250) when its parsing
\* failed, whatever the bounds of the rows before it, and every slice
\* written is windowed with them.
C30_BoundsAreTheRowsOwn ==
  [][ pc = "slices" =>
        LET b == OwnBounds(dl_info[idx].DICOM_windows)
        IN /\ clip_min = b[1] /\ clip_max = b[2]
           /\ \A p \in WrittenNow :
                out'[p] = Window8(Imread(p[1], p[2]), b[1], b[2], nanCast) ]_vars

\* A row whose window does not parse follows a row with bounds of its own.
C30_Witness ==
  /\ Len(dl_info) = 2
  /\ dl_info[1] = Row(FN_ab2, W_0_4)
  /\ dl_info[2] = Row(FN_c1, W_abc)
  /\ pc = "done"
  /\ clip_min = DefaultClipMin /\ clip_max = DefaultClipMax
  /\ <<FolderAB, 1>> \in DOMAIN out
  /\ <<FolderC, 1>> \in DOMAIN out
  /\ out[<<FolderC, 1>>] = DefaultImage(<<FolderC, 1>>)

====
